---- MODULE Spec2Model ----
(***************************************************************************)
(* Model of the proposal generator.                                        *)
(*                                                                         *)
(* Spec       the conversation orchestrator of assistant.handle_request    *)
(*            (src/assistant.py): one thread, the per-prompt loop of       *)
(*            message-create, run-create, poll and message-list, the       *)
(*            transcript and draft documents and their upload, together    *)
(*            with the remote assistant service the loop talks to.         *)
(* ChunkSpec  download_from_adls, process_file, the chunks and the prompts. *)
(* RenderSpec add_formatted_content.                                       *)
(* MainSpec   the trigger main and handle_request_in_background            *)
(*            (src/proposals_function/__init__.py).                        *)
(* StoreSpec  two concurrent invocations and the stores they share.        *)
(*                                                                         *)
(* Each specification moves its own variables and leaves those of the      *)
(* others at rest.                                                         *)
(***************************************************************************)
EXTENDS Integers, Sequences, FiniteSets, TLC

\* ------------------------------------------------------------------------
\* Bounds and program constants
\* ------------------------------------------------------------------------

\* Largest number of content chunks a request brings (bound of the model).
MaxChunks == 0

\* The four fixed analysis prompts appended after the chunk prompts.
NumFixedPrompts == 4

\* "while attempt < 3 and not success"
MaxAttempts == 3

\* Identifier the service gives the thread of this invocation; 0 is "no thread".
NewThreadId == 1

\* Statuses that keep the poll loop going.
Polling == {"queued", "in_progress", "cancelling"}

\* The other statuses of a Run.
Terminal == {"completed", "failed", "cancelled", "expired"}

RunStatus == Polling \cup Terminal

ChatName == "chat_history.docx"
DraftName == "draft_response.docx"

NoResponse == <<"No response available.", 0>>
NoDraft == <<"none", 0>>

VARIABLES
    nprompts,         \* len(prompts)
    pc,               \* position of handle_request
    cur,              \* i + 1 of the prompt loop
    attempt,          \* local variable attempt
    success,          \* local variable success
    calls,            \* create calls made so far by the current retry loop
    thread_id,        \* local variable thread_id (0: unbound)
    threads,          \* remote: identifiers of the threads created for this invocation
    usedThreads,      \* thread identifiers passed to message/run calls
    thread_msgs,      \* remote: the messages of the thread, in creation order
    runs,             \* remote: the runs of the thread, in creation order
    elapsed,          \* remote clock: a second boundary passed since the last message
    run_id,           \* local variable run: its id (0: unbound)
    run_status,       \* local variable run: its status as last returned
    messages_data,    \* local variable messages: its data, as last returned
    sorted_defined,   \* whether the local variable sorted_messages is bound
    sorted_messages,  \* local variable sorted_messages
    chat_doc,         \* paragraphs of chat_doc, after the heading
    last_response,    \* text handed to add_formatted_content
    uploaded,         \* names of the documents put into the response folder
    raisedAt,         \* where handle_request raised ("none": it has not)
    log               \* the last record handle_request logged

loopVars == <<nprompts, pc, cur, attempt, success, calls, thread_id, threads,
              usedThreads, thread_msgs, runs, elapsed, run_id, run_status,
              sorted_defined, messages_data, sorted_messages, chat_doc,
              last_response, uploaded, raisedAt, log>>

remoteVars == <<thread_msgs, runs, elapsed>>
docVars == <<messages_data, sorted_defined, sorted_messages, chat_doc, last_response,
            uploaded>>

\* download_from_adls, process_file, chunking and the preparation of the prompts
VARIABLES
    chunk_size,       \* chunk_size
    blob_list,        \* the blobs list_blobs returns under the folder prefix
    file_contents,    \* what process_file returned for the blobs read so far
    nchunked,         \* how many elements of adls_file_contents were chunked
    chunks,           \* chunks
    prompts,          \* prompts
    prep              \* position of the preparation, "idle" outside it

chunkVars == <<chunk_size, blob_list, file_contents, nchunked, chunks, prompts, prep>>

\* The preparation is not part of the behaviour looked at.
ChunkIdle ==
    /\ chunk_size = 0
    /\ blob_list = <<>>
    /\ file_contents = <<>>
    /\ nchunked = 0
    /\ chunks = <<>>
    /\ prompts = <<>>
    /\ prep = "idle"

\* add_formatted_content
VARIABLES
    content,          \* parameter content
    paragraphs,       \* content.split('\n')
    npara,            \* how many elements of paragraphs the for loop has taken
    paragraph,        \* loop variable paragraph, cut down by the while loop
    draft_doc,        \* the paragraphs added to draft_doc, each a sequence of runs
    fmt               \* position of add_formatted_content, "idle" outside it

renderVars == <<content, paragraphs, npara, paragraph, draft_doc, fmt>>

\* add_formatted_content is not part of the behaviour looked at.
RenderIdle ==
    /\ content = <<>>
    /\ paragraphs = <<>>
    /\ npara = 0
    /\ paragraph = <<>>
    /\ draft_doc = <<>>
    /\ fmt = "idle"

\* proposals_function: main and handle_request_in_background
VARIABLES
    req_body,         \* body of the request main is handling
    mainpc,           \* position of main, "idle" outside the trigger
    responses,        \* the responses main returned, with the bodies they answer
    units             \* the background threads main started

mainVars == <<req_body, mainpc, responses, units>>

\* The trigger is not part of the behaviour looked at.
MainIdle ==
    /\ req_body = "none"
    /\ mainpc = "idle"
    /\ responses = <<>>
    /\ units = <<>>

\* Concurrent invocations of handle_request and the stores they share
VARIABLES
    inv,              \* per invocation: its folder identifiers, position and locals
    adls,             \* the blobs of the ADLS container
    drive,            \* the files of the OneDrive drive
    nthreads          \* threads created at the assistant service so far

storeVars == <<inv, adls, drive, nthreads>>

\* No invocation is part of the behaviour looked at.
StoreIdle ==
    /\ inv = <<>>
    /\ adls = {}
    /\ drive = {}
    /\ nthreads = 0

\* Variables the prompt loop of handle_request leaves alone.
asideVars == <<chunkVars, renderVars, mainVars, storeVars>>
AsideIdle == ChunkIdle /\ RenderIdle /\ MainIdle /\ StoreIdle

vars == <<loopVars, asideVars>>

\* Variables the preparation leaves alone.
besidesChunk == <<loopVars, renderVars, mainVars, storeVars>>

\* Variables add_formatted_content leaves alone.
besidesRender == <<loopVars, chunkVars, mainVars, storeVars>>

\* Variables main and the background threads leave alone.
besidesMain == <<loopVars, chunkVars, renderVars, storeVars>>

\* Variables the concurrent invocations leave alone.
besidesStore == <<loopVars, chunkVars, renderVars, mainVars>>

\* ------------------------------------------------------------------------
\* Pure helpers
\* ------------------------------------------------------------------------

Last(s) == s[Len(s)]

RECURSIVE Reverse(_)
Reverse(s) == IF s = <<>> THEN <<>> ELSE Append(Reverse(Tail(s)), Head(s))

\* InsertPos that stops at the first element whose key is not smaller: equal
\* keys end up in reverse order (a sort that is not stable).
RECURSIVE InsertPosBeforeEqual(_, _, _)
InsertPosBeforeEqual(x, s, k) ==
    IF k > Len(s) THEN k
    ELSE IF s[k].created_at >= x.created_at THEN k
    ELSE InsertPosBeforeEqual(x, s, k + 1)

\* Position at which x goes into the sorted sequence s: after every element
\* whose key is not greater (this is what makes the sort stable).
RECURSIVE InsertPos(_, _, _)
InsertPos(x, s, k) ==
    IF k > Len(s) THEN k
    ELSE IF s[k].created_at > x.created_at THEN k
    ELSE InsertPos(x, s, k + 1)

InsertSorted(x, s) ==
    LET k == InsertPos(x, s, 1)
    IN  SubSeq(s, 1, k - 1) \o <<x>> \o SubSeq(s, k, Len(s))

\* sorted(data, key=lambda x: x.created_at)
RECURSIVE SortedByCreatedAt(_)
SortedByCreatedAt(data) ==
    IF data = <<>> THEN <<>>
    ELSE InsertSorted(Last(data), SortedByCreatedAt(SubSeq(data, 1, Len(data) - 1)))

\* One paragraph per message: the role in bold, then the content.
Paragraph(m) ==
    [role |-> IF m.role = "user" THEN "User" ELSE "Assistant", content |-> m.body]

Paragraphs(ms) == [k \in 1..Len(ms) |-> Paragraph(ms[k])]

\* created_at the service stamps on a message it creates now.
Stamp ==
    IF thread_msgs = <<>> THEN 1
    ELSE IF elapsed THEN Last(thread_msgs).created_at + 1
    ELSE Last(thread_msgs).created_at

UserMessage(i) == [role |-> "user", body |-> <<"prompt", i>>, created_at |-> Stamp]
AssistantMessage(i) == [role |-> "assistant", body |-> <<"reply", i>>, created_at |-> Stamp]

\* A record of logging.info / logging.error: what it reports, for which prompt.
Logged(ev, i) == [ev |-> ev, i |-> i]

\* ------------------------------------------------------------------------
\* Initial state: prompts are built, the thread is about to be created
\* ------------------------------------------------------------------------

LoopStart ==
    /\ pc = "thread"
    /\ cur = 0
    /\ attempt = 0
    /\ success = FALSE
    /\ calls = 0
    /\ thread_id = 0
    /\ threads = {}
    /\ usedThreads = {}
    /\ thread_msgs = <<>>
    /\ runs = <<>>
    /\ elapsed = FALSE
    /\ run_id = 0
    /\ run_status = "none"
    /\ messages_data = <<>>
    /\ sorted_defined = FALSE
    /\ sorted_messages = <<>>
    /\ chat_doc = <<>>
    /\ last_response = NoDraft
    /\ uploaded = {}
    /\ raisedAt = "none"
    /\ log = Logged("start", 0)

Init ==
    /\ nprompts \in {k + NumFixedPrompts : k \in 0..MaxChunks}
    /\ LoopStart
    /\ AsideIdle

\* handle_request is not part of the behaviour looked at.
LoopIdle ==
    /\ nprompts = NumFixedPrompts
    /\ LoopStart

\* ------------------------------------------------------------------------
\* handle_request
\* ------------------------------------------------------------------------

\* An exception reaches "except Exception as e: ... raise" of handle_request.
Raise(where) ==
    /\ pc' = "raised"
    /\ raisedAt' = where
    /\ log' = Logged("error_in_handle_request", 0)

\* "continue" or the end of the loop body: the next prompt, or the code after
\* the loop when the sequence is exhausted.
NextPrompt ==
    /\ cur' = cur + 1
    /\ pc' = IF cur >= nprompts THEN "build" ELSE "iter"

\* thread = client.beta.threads.create()
CreateThreadOk ==
    /\ pc = "thread"
    /\ threads' = threads \cup {NewThreadId}
    /\ thread_id' = NewThreadId
    /\ cur' = 1
    /\ pc' = "iter"
    /\ log' = Logged("thread_created", 0)
    /\ UNCHANGED <<asideVars, nprompts, attempt, success, calls, usedThreads, remoteVars,
                   run_id, run_status, docVars, raisedAt>>

\* CreateThreadFail with the exception only logged: the loop starts with
\* thread_id unbound.
CreateThreadFailSwallowed ==
    /\ pc = "thread"
    /\ cur' = 1
    /\ pc' = "iter"
    /\ log' = Logged("failed_to_create_thread", 0)
    /\ UNCHANGED <<asideVars, nprompts, attempt, success, calls, thread_id, threads,
                   usedThreads, remoteVars, run_id, run_status, docVars, raisedAt>>

\* client.beta.threads.create() raises: logged and raised again.
CreateThreadFail ==
    /\ pc = "thread"
    /\ Raise("thread")
    /\ UNCHANGED <<asideVars, nprompts, cur, attempt, success, calls, thread_id,
                   threads, usedThreads, remoteVars, run_id, run_status, docVars>>

\* attempt as the retry loop sees it: reset to 0 on entering the loop.
AttemptAt(first) == IF pc = first THEN 0 ELSE attempt

\* Calls the retry loop has made before this one.
CallsAt(first) == IF pc = first THEN 0 ELSE calls

\* The loop condition with <= for <: one attempt too many.
RetryAllowedOffByOne(n) == n <= MaxAttempts

\* The retry loop goes on while attempt < 3.
RetryAllowed(n) == n < MaxAttempts

\* client.beta.threads.messages.create(...) returns.
MessageCreateOk ==
    /\ pc \in {"iter", "msg"}
    /\ usedThreads' = usedThreads \cup {thread_id}
    /\ calls' = CallsAt("iter") + 1
    /\ thread_msgs' = Append(thread_msgs, UserMessage(cur))
    /\ elapsed' = FALSE
    /\ attempt' = AttemptAt("iter")
    /\ success' = TRUE
    /\ pc' = "run0"
    /\ log' = Logged("added_prompt", cur)
    /\ UNCHANGED <<asideVars, nprompts, cur, thread_id, threads, runs, run_id,
                   run_status, docVars, raisedAt>>

\* MessageCreateFail without the "continue" after "Giving up on prompt": the
\* loop body goes on to the run of a prompt that was never submitted.
MessageCreateFailNoContinue ==
    /\ pc \in {"iter", "msg"}
    /\ usedThreads' = usedThreads \cup {thread_id}
    /\ calls' = CallsAt("iter") + 1
    /\ attempt' = AttemptAt("iter") + 1
    /\ success' = FALSE
    /\ elapsed' = TRUE
    /\ cur' = cur
    /\ IF RetryAllowed(attempt')
         THEN pc' = "msg" /\ log' = Logged("failed_to_add_prompt", cur)
         ELSE pc' = "run0" /\ log' = Logged("giving_up_on_prompt", cur)
    /\ UNCHANGED <<asideVars, nprompts, thread_id, threads, thread_msgs, runs, run_id,
                   run_status, docVars, raisedAt>>

\* client.beta.threads.messages.create(...) raises: count, sleep, and give the
\* prompt up ("continue") once the attempts are used up.
MessageCreateFail ==
    /\ pc \in {"iter", "msg"}
    /\ usedThreads' = usedThreads \cup {thread_id}
    /\ calls' = CallsAt("iter") + 1
    /\ attempt' = AttemptAt("iter") + 1
    /\ success' = FALSE
    /\ elapsed' = TRUE
    /\ IF RetryAllowed(attempt')
         THEN pc' = "msg" /\ cur' = cur /\ log' = Logged("failed_to_add_prompt", cur)
         ELSE NextPrompt /\ log' = Logged("giving_up_on_prompt", cur)
    /\ UNCHANGED <<asideVars, nprompts, thread_id, threads, thread_msgs, runs, run_id,
                   run_status, docVars, raisedAt>>

\* client.beta.threads.runs.create(...) returns a queued run.
RunCreateOk ==
    /\ pc \in {"run0", "run"}
    /\ usedThreads' = usedThreads \cup {thread_id}
    /\ calls' = CallsAt("run0") + 1
    /\ runs' = Append(runs, [status |-> "queued", prompt |-> cur])
    /\ run_id' = Len(runs) + 1
    /\ run_status' = "queued"
    /\ attempt' = AttemptAt("run0")
    /\ success' = TRUE
    /\ pc' = "poll"
    /\ UNCHANGED <<asideVars, nprompts, cur, thread_id, threads, thread_msgs, elapsed,
                   docVars, raisedAt, log>>

\* RunCreateFail in which the failed call still leaves a run at the service, so
\* that the retries pile up runs for one prompt.
RunCreateFailLeavesRun ==
    /\ pc \in {"run0", "run"}
    /\ usedThreads' = usedThreads \cup {thread_id}
    /\ calls' = CallsAt("run0") + 1
    /\ attempt' = AttemptAt("run0") + 1
    /\ success' = FALSE
    /\ elapsed' = TRUE
    /\ runs' = Append(runs, [status |-> "queued", prompt |-> cur])
    /\ IF RetryAllowed(attempt')
         THEN pc' = "run" /\ cur' = cur /\ log' = Logged("failed_to_run_thread", cur)
         ELSE NextPrompt /\ log' = Logged("giving_up_on_running_thread", cur)
    /\ UNCHANGED <<asideVars, nprompts, thread_id, threads, thread_msgs, run_id,
                   run_status, docVars, raisedAt>>

\* client.beta.threads.runs.create(...) raises.
RunCreateFail ==
    /\ pc \in {"run0", "run"}
    /\ usedThreads' = usedThreads \cup {thread_id}
    /\ calls' = CallsAt("run0") + 1
    /\ attempt' = AttemptAt("run0") + 1
    /\ success' = FALSE
    /\ elapsed' = TRUE
    /\ IF RetryAllowed(attempt')
         THEN pc' = "run" /\ cur' = cur /\ log' = Logged("failed_to_run_thread", cur)
         ELSE NextPrompt /\ log' = Logged("giving_up_on_running_thread", cur)
    /\ UNCHANGED <<asideVars, nprompts, thread_id, threads, thread_msgs, runs, run_id,
                   run_status, docVars, raisedAt>>

\* The poll condition with 'cancelling' left out.
KeepPollingNoCancelling(status) == status \in {"queued", "in_progress"}

\* The condition of "while run.status in ['queued', 'in_progress', 'cancelling']".
KeepPolling(status) == status \in Polling

\* The body of the poll loop up to the call: time.sleep(1).
PollSleep ==
    /\ pc = "poll"
    /\ KeepPolling(run_status)
    /\ elapsed' = TRUE
    /\ pc' = "retrieve"
    /\ UNCHANGED <<asideVars, nprompts, cur, attempt, success, calls, thread_id,
                   threads, usedThreads, thread_msgs, runs, run_id, run_status,
                   docVars, raisedAt, log>>

\* RetrieveOk with a ceiling of one poll: a run still in a polled status after
\* the first retrieve is given up and the loop continues with the next prompt.
RetrieveOkOnePoll ==
    /\ pc = "retrieve"
    /\ usedThreads' = usedThreads \cup {thread_id}
    /\ run_status' = runs[run_id].status
    /\ IF run_status' \in Polling
         THEN NextPrompt /\ log' = Logged("run_timed_out", cur)
         ELSE pc' = "poll" /\ cur' = cur /\ log' = log
    /\ UNCHANGED <<asideVars, nprompts, attempt, success, calls, thread_id, threads,
                   remoteVars, run_id, docVars, raisedAt>>

\* run = client.beta.threads.runs.retrieve(...) returns.
RetrieveOk ==
    /\ pc = "retrieve"
    /\ usedThreads' = usedThreads \cup {thread_id}
    /\ run_status' = runs[run_id].status
    /\ pc' = "poll"
    /\ UNCHANGED <<asideVars, nprompts, cur, attempt, success, calls, thread_id,
                   threads, remoteVars, run_id, docVars, raisedAt, log>>

\* RetrieveFail caught inside the loop and turned into a skip of the prompt.
RetrieveFailSkips ==
    /\ pc = "retrieve"
    /\ usedThreads' = usedThreads \cup {thread_id}
    /\ NextPrompt
    /\ log' = Logged("run_failed", cur)
    /\ UNCHANGED <<asideVars, nprompts, attempt, success, calls, thread_id,
                   threads, remoteVars, run_id, run_status, docVars, raisedAt>>

\* client.beta.threads.runs.retrieve(...) raises: nothing in the loop catches it.
RetrieveFail ==
    /\ pc = "retrieve"
    /\ usedThreads' = usedThreads \cup {thread_id}
    /\ Raise("retrieve")
    /\ UNCHANGED <<asideVars, nprompts, cur, attempt, success, calls, thread_id,
                   threads, remoteVars, run_id, run_status, docVars>>

\* RunNotCompleted that still lists the messages before it continues, so that
\* the transcript is refreshed after a failed run too.
RunNotCompletedRefreshes ==
    /\ pc = "poll"
    /\ ~KeepPolling(run_status)
    /\ run_status # "completed"
    /\ NextPrompt
    /\ log' = Logged("run_failed", cur)
    /\ usedThreads' = usedThreads \cup {thread_id}
    /\ messages_data' = Reverse(thread_msgs)
    /\ sorted_messages' = SortedByCreatedAt(messages_data')
    /\ sorted_defined' = TRUE
    /\ UNCHANGED <<asideVars, nprompts, attempt, success, calls, thread_id, threads,
                   remoteVars, run_id, run_status, chat_doc, last_response,
                   uploaded, raisedAt>>

\* if run.status != 'completed': log and continue
RunNotCompleted ==
    /\ pc = "poll"
    /\ ~KeepPolling(run_status)
    /\ run_status # "completed"
    /\ NextPrompt
    /\ log' = Logged("run_failed", cur)
    /\ UNCHANGED <<asideVars, nprompts, attempt, success, calls, thread_id, threads,
                   usedThreads, remoteVars, run_id, run_status, docVars, raisedAt>>

\* The paragraphs the loop body adds to chat_doc for the sorted messages.
ChatAfter(doc, ms) == doc \o Paragraphs(ms)

\* What messages.list(thread_id=...) returns as messages.data: the call passes
\* no order, and the service then lists the newest message first.
ListData(msgs) == Reverse(msgs)

\* messages.list(...), sorted(...), and the paragraphs added to chat_doc.
ListMessagesOk ==
    /\ pc = "poll"
    /\ ~KeepPolling(run_status)
    /\ run_status = "completed"
    /\ usedThreads' = usedThreads \cup {thread_id}
    /\ messages_data' = ListData(thread_msgs)
    /\ sorted_messages' = SortedByCreatedAt(messages_data')
    /\ sorted_defined' = TRUE
    /\ chat_doc' = ChatAfter(chat_doc, sorted_messages')
    /\ NextPrompt
    /\ UNCHANGED <<asideVars, nprompts, attempt, success, calls, thread_id, threads,
                   remoteVars, run_id, run_status, last_response, uploaded, raisedAt, log>>

\* client.beta.threads.messages.list(...) raises: nothing in the loop catches it.
ListMessagesFail ==
    /\ pc = "poll"
    /\ ~KeepPolling(run_status)
    /\ run_status = "completed"
    /\ usedThreads' = usedThreads \cup {thread_id}
    /\ Raise("list")
    /\ UNCHANGED <<asideVars, nprompts, cur, attempt, success, calls, thread_id,
                   threads, remoteVars, run_id, run_status, docVars>>

\* sorted_messages[-1].content[0].text.value if sorted_messages else "No response available."
LastResponse(ms) == IF ms # <<>> THEN Last(ms).body ELSE NoResponse

\* Lines after the loop: save chat_doc, pick last_response, build the draft.
\* Reading sorted_messages while it is unbound raises UnboundLocalError.
BuildDocuments ==
    /\ pc = "build"
    /\ IF sorted_defined
         THEN /\ last_response' = LastResponse(sorted_messages)
              /\ pc' = "upload_chat"
              /\ UNCHANGED <<raisedAt, log>>
         ELSE /\ Raise("draft")
              /\ last_response' = last_response
    /\ UNCHANGED <<asideVars, nprompts, cur, attempt, success, calls, thread_id,
                   threads, usedThreads, remoteVars, run_id, run_status,
                   messages_data, sorted_defined, sorted_messages, chat_doc,
                   uploaded>>

\* What requests.put can do in upload_to_onedrive: answer 200/201, answer an
\* error status (which is only logged), or raise.
PutOutcomes == {"stored", "refused", "raises"}

\* upload_to_onedrive(stream, name, response_folder_id, ...) with that outcome.
upload_to_onedrive(name, outcome, next) ==
    /\ uploaded' = IF outcome = "stored" THEN uploaded \cup {name} ELSE uploaded
    /\ IF outcome = "raises"
         THEN Raise("upload")
         ELSE /\ pc' = next
              /\ raisedAt' = raisedAt
              /\ log' = Logged(IF outcome = "stored" THEN "uploaded"
                                                     ELSE "failed_to_upload", 0)
    /\ UNCHANGED <<asideVars, nprompts, cur, attempt, success, calls, thread_id, threads,
                   usedThreads, remoteVars, run_id, run_status, messages_data,
                   sorted_defined, sorted_messages, chat_doc, last_response>>

\* upload_to_onedrive(chat_byte_stream, 'chat_history.docx', ...)
UploadChat ==
    /\ pc = "upload_chat"
    /\ \E outcome \in PutOutcomes : upload_to_onedrive(ChatName, outcome, "upload_draft")

\* upload_to_onedrive(draft_byte_stream, 'draft_response.docx', ...)
UploadDraft ==
    /\ pc = "upload_draft"
    /\ \E outcome \in PutOutcomes : upload_to_onedrive(DraftName, outcome, "done")

\* ------------------------------------------------------------------------
\* The remote service
\* ------------------------------------------------------------------------

\* The service clock passes a second boundary.
Tick ==
    /\ ~elapsed
    /\ thread_msgs # <<>>
    /\ elapsed' = TRUE
    /\ UNCHANGED <<asideVars, nprompts, pc, cur, attempt, success, calls,
                   thread_id, threads, usedThreads, thread_msgs, runs, run_id,
                   run_status, docVars, raisedAt, log>>

\* Statuses a run can take next.
NextStatus(s) ==
    CASE s = "queued" -> {"in_progress"}
      [] s = "in_progress" -> {"completed", "failed", "cancelling", "expired"}
      [] s = "cancelling" -> {"cancelled"}
      [] OTHER -> {}

\* The service moves a run on; a run that completes leaves its reply on the thread.
RunProgress ==
    \E r \in 1..Len(runs) : \E s \in NextStatus(runs[r].status) :
        /\ runs' = [runs EXCEPT ![r].status = s]
        /\ IF s = "completed"
             THEN /\ thread_msgs' = Append(thread_msgs, AssistantMessage(runs[r].prompt))
                  /\ elapsed' = FALSE
             ELSE UNCHANGED <<thread_msgs, elapsed>>
        /\ UNCHANGED <<asideVars, nprompts, pc, cur, attempt, success, calls,
                       thread_id, threads, usedThreads, run_id, run_status,
                       docVars, raisedAt, log>>

Next ==
    \/ CreateThreadOk
    \/ CreateThreadFail
    \/ MessageCreateOk
    \/ MessageCreateFail
    \/ RunCreateOk
    \/ RunCreateFail
    \/ PollSleep
    \/ RetrieveOk
    \/ RetrieveFail
    \/ RunNotCompleted
    \/ ListMessagesOk
    \/ ListMessagesFail
    \/ BuildDocuments
    \/ UploadChat
    \/ UploadDraft
    \/ Tick
    \/ RunProgress

Spec == Init /\ [][Next]_vars

TypeOK ==
    /\ pc \in {"thread", "iter", "msg", "run0", "run", "poll", "retrieve", "build",
               "upload_chat", "upload_draft", "done", "raised"}
    /\ cur \in 0..(nprompts + 1)
    /\ attempt \in 0..MaxAttempts
    /\ run_status \in RunStatus \cup {"none"}

\* ------------------------------------------------------------------------
\* Preparation: download_from_adls, process_file, chunks, prompts
\* ------------------------------------------------------------------------

\* Most blobs under the folder prefix, longest extracted text, largest small
\* chunk_size (bounds of the model).
MaxBlobs == 2
MaxTextLen == 3
MaxChunkSize == 2

\* chunk_size = 100000
CodeChunkSize == 100000

ChunkSizes == (1..MaxChunkSize) \cup {CodeChunkSize}

\* Extensions of the blobs read: one per way process_file treats a blob.
BlobExtensions == {".xlsx", ".pdf", ".txt", ".zip"}

\* A blob: its extension, and either the length of the text its content holds
\* or the fact that the content cannot be parsed as its format.
BlobChoices ==
    [ext : BlobExtensions, len : 0..MaxTextLen, corrupt : {FALSE}]
        \cup [ext : BlobExtensions, len : {0}, corrupt : {TRUE}]

\* The text held by blob number b: characters that are pairwise distinct, so
\* that a lost, repeated or misplaced character shows.
Text(b, n) == [k \in 1..n |-> <<b, k>>]

Min(a, b) == IF a <= b THEN a ELSE b

\* What a function returned, or that it raised.
Returned(text) == [raised |-> FALSE, text |-> text]
Raised == [raised |-> TRUE, text |-> <<>>]

\* pd.read_excel(...).to_string() inside try/except: the error becomes the text.
process_excel(b, blob) ==
    IF blob.corrupt
      THEN Returned(<<"Error processing Excel file: ", "e">>)
      ELSE Returned(Text(b, blob.len))

\* DocxDocument(...), no try/except.
process_word(b, blob) == IF blob.corrupt THEN Raised ELSE Returned(Text(b, blob.len))

\* pdfplumber.open(...), no try/except.
process_pdf(b, blob) == IF blob.corrupt THEN Raised ELSE Returned(Text(b, blob.len))

\* pptx.Presentation(...), no try/except.
process_ppt(b, blob) == IF blob.corrupt THEN Raised ELSE Returned(Text(b, blob.len))

\* file_content.decode('utf-8'), no try/except.
process_text(b, blob) == IF blob.corrupt THEN Raised ELSE Returned(Text(b, blob.len))

process_file(b, blob) ==
    IF blob.ext \in {".xlsx", ".xls"} THEN process_excel(b, blob)
    ELSE IF blob.ext \in {".docx", ".doc"} THEN process_word(b, blob)
    ELSE IF blob.ext = ".pdf" THEN process_pdf(b, blob)
    ELSE IF blob.ext = ".pptx" THEN process_ppt(b, blob)
    ELSE IF blob.ext = ".txt" THEN process_text(b, blob)
    ELSE Returned(<<"Unsupported file type: ", blob.ext>>)

\* range(start, stop, step)
RECURSIVE Range(_, _, _)
Range(start, stop, step) ==
    IF start >= stop THEN <<>> ELSE <<start>> \o Range(start + step, stop, step)

\* Slice that drops the last character of every chunk.
SliceShort(text, i, j) == SubSeq(text, i + 1, Min(j, Len(text)) - 1)

\* text[i:j] for 0 <= i <= j
Slice(text, i, j) == SubSeq(text, i + 1, Min(j, Len(text)))

\* [file_content[i:i + chunk_size] for i in range(0, len(file_content), chunk_size)]
ChunksOf(file_content, size) ==
    LET offsets == Range(0, Len(file_content), size)
    IN  [k \in 1..Len(offsets) |-> Slice(file_content, offsets[k], offsets[k] + size)]

\* f"Please acknowledge and save the following content chunk {i + 1}:\n{chunk}"
ChunkPrompt(i, chunk) == [kind |-> "chunk", n |-> i + 1, chunk |-> chunk]

FixedPrompts ==
    << [kind |-> "RFP Analysis Prompt", n |-> 0, chunk |-> <<>>],
       [kind |-> "Customer Problem/Objective Identification Prompt", n |-> 0, chunk |-> <<>>],
       [kind |-> "Full Proposal Draft Assembly Prompt", n |-> 0, chunk |-> <<>>],
       [kind |-> "final proposal", n |-> 0, chunk |-> <<>>] >>

\* PromptsFor with the fixed prompts put before the chunk prompts.
PromptsForFixedFirst(cs) ==
    FixedPrompts \o [k \in 1..Len(cs) |-> ChunkPrompt(k - 1, cs[k])]

\* The list comprehension over enumerate(chunks), then the four prompts.append.
PromptsFor(cs) ==
    [k \in 1..Len(cs) |-> ChunkPrompt(k - 1, cs[k])] \o FixedPrompts

RECURSIVE SeqsUpTo(_, _)
SeqsUpTo(S, n) ==
    IF n = 0 THEN {<<>>}
    ELSE LET shorter == SeqsUpTo(S, n - 1)
         IN  shorter \cup {Append(q, x) : q \in shorter, x \in S}

ChunkInit ==
    /\ chunk_size \in ChunkSizes
    /\ blob_list \in SeqsUpTo(BlobChoices, MaxBlobs)
    /\ file_contents = <<>>
    /\ nchunked = 0
    /\ chunks = <<>>
    /\ prompts = <<>>
    /\ prep = "download"
    /\ LoopIdle
    /\ RenderIdle
    /\ MainIdle
    /\ StoreIdle

\* download_from_adls reads the next blob and process_file returns a text.
DownloadBlobOk ==
    /\ prep = "download"
    /\ Len(file_contents) < Len(blob_list)
    /\ LET b == Len(file_contents) + 1
           got == process_file(b, blob_list[b])
       IN  /\ ~got.raised
           /\ file_contents' = Append(file_contents, got.text)
    /\ UNCHANGED <<besidesChunk, chunk_size, blob_list, nchunked, chunks, prompts, prep>>

\* process_file raises: download_from_adls and handle_request catch nothing
\* here, the exception reaches the outer except of handle_request.
DownloadBlobRaises ==
    /\ prep = "download"
    /\ Len(file_contents) < Len(blob_list)
    /\ process_file(Len(file_contents) + 1, blob_list[Len(file_contents) + 1]).raised
    /\ prep' = "raised"
    /\ UNCHANGED <<besidesChunk, chunk_size, blob_list, file_contents, nchunked,
                   chunks, prompts>>

\* return file_contents
ReturnFileContents ==
    /\ prep = "download"
    /\ Len(file_contents) = Len(blob_list)
    /\ prep' = "chunk"
    /\ UNCHANGED <<besidesChunk, chunk_size, blob_list, file_contents, nchunked,
                   chunks, prompts>>

\* One turn of "for file_content in adls_file_contents: chunks.extend(...)".
ChunkFile ==
    /\ prep = "chunk"
    /\ nchunked < Len(file_contents)
    /\ chunks' = chunks \o ChunksOf(file_contents[nchunked + 1], chunk_size)
    /\ nchunked' = nchunked + 1
    /\ UNCHANGED <<besidesChunk, chunk_size, blob_list, file_contents, prompts, prep>>

\* "Preparing prompts"
PreparePrompts ==
    /\ prep = "chunk"
    /\ nchunked = Len(file_contents)
    /\ prompts' = PromptsFor(chunks)
    /\ prep' = "ready"
    /\ UNCHANGED <<besidesChunk, chunk_size, blob_list, file_contents, nchunked, chunks>>

ChunkNext ==
    \/ DownloadBlobOk
    \/ DownloadBlobRaises
    \/ ReturnFileContents
    \/ ChunkFile
    \/ PreparePrompts

ChunkSpec == ChunkInit /\ [][ChunkNext]_vars

\* ------------------------------------------------------------------------
\* add_formatted_content
\* ------------------------------------------------------------------------

\* Longest content rendered (bound of the model).
MaxContentLen == 6

\* Characters of the contents rendered: two letters, the marker character and
\* the line separator.
Chars == {"a", "b", "*", "\n"}

Marker == <<"*", "*">>

\* s.find('**', start): lowest index from start on at which '**' stands, or -1.
RECURSIVE Find(_, _)
Find(s, start) ==
    IF start + 2 > Len(s) THEN -1
    ELSE IF s[start + 1] = "*" /\ s[start + 2] = "*" THEN start
    ELSE Find(s, start + 1)

\* s.split('\n')
RECURSIVE Split(_)
Split(s) ==
    LET nl == {k \in 1..Len(s) : s[k] = "\n"}
    IN  IF nl = {} THEN <<s>>
        ELSE LET k == CHOOSE x \in nl : \A y \in nl : x <= y
             IN  <<SubSeq(s, 1, k - 1)>> \o Split(SubSeq(s, k + 1, Len(s)))

\* p.add_run(text), and p.add_run(text).bold = True
PlainRun(text) == [text |-> text, bold |-> FALSE]
BoldRun(text) == [text |-> text, bold |-> TRUE]

\* A search for the closing marker that starts inside the opening marker.
CloseFromOverlapping(start_index) == start_index + 1

\* Where the search for the closing marker starts: start_index + 2.
CloseFrom(start_index) == start_index + 2

\* start_index and end_index of one turn of the while loop.
StartIndex == Find(paragraph, 0)
EndIndex == Find(paragraph, CloseFrom(StartIndex))

\* The runs added to the paragraph that is being rendered.
AddRuns(rs) == [draft_doc EXCEPT ![Len(draft_doc)] = @ \o rs]

\* The runs add_formatted_content gives one line: the while loop and the
\* add_run after it, as a function of the line.
RECURSIVE LineRuns(_)
LineRuns(line) ==
    LET start_index == Find(line, 0)
        end_index == Find(line, CloseFrom(start_index))
    IN  IF start_index = -1 \/ end_index = -1
          THEN <<PlainRun(line)>>
          ELSE <<PlainRun(Slice(line, 0, start_index)),
                 BoldRun(Slice(line, start_index + 2, end_index))>>
                   \o LineRuns(Slice(line, end_index + 2, Len(line)))

RenderInit ==
    /\ content \in SeqsUpTo(Chars, MaxContentLen)
    /\ paragraphs = <<>>
    /\ npara = 0
    /\ paragraph = <<>>
    /\ draft_doc = <<>>
    /\ fmt = "split"
    /\ LoopIdle
    /\ ChunkIdle
    /\ MainIdle
    /\ StoreIdle

\* paragraphs = content.split('\n')
SplitContent ==
    /\ fmt = "split"
    /\ paragraphs' = Split(content)
    /\ fmt' = "for"
    /\ UNCHANGED <<besidesRender, content, npara, paragraph, draft_doc>>

\* for paragraph in paragraphs: p = draft_doc.add_paragraph()
StartParagraph ==
    /\ fmt = "for"
    /\ npara < Len(paragraphs)
    /\ npara' = npara + 1
    /\ paragraph' = paragraphs[npara + 1]
    /\ draft_doc' = Append(draft_doc, <<>>)
    /\ fmt' = "while"
    /\ UNCHANGED <<besidesRender, content, paragraphs>>

\* One turn of the while loop that finds a closing marker: the text before
\* the pair, the text inside it in bold, and paragraph cut to what follows.
BoldPair ==
    /\ fmt = "while"
    /\ StartIndex # -1
    /\ EndIndex # -1
    /\ draft_doc' = AddRuns(<<PlainRun(Slice(paragraph, 0, StartIndex)),
                              BoldRun(Slice(paragraph, StartIndex + 2, EndIndex))>>)
    /\ paragraph' = Slice(paragraph, EndIndex + 2, Len(paragraph))
    /\ UNCHANGED <<besidesRender, content, paragraphs, npara, fmt>>

\* The while loop ends (no '**' left, or break on end_index == -1):
\* p.add_run(paragraph)
RemainingRun ==
    /\ fmt = "while"
    /\ StartIndex = -1 \/ EndIndex = -1
    /\ draft_doc' = AddRuns(<<PlainRun(paragraph)>>)
    /\ fmt' = "for"
    /\ UNCHANGED <<besidesRender, content, paragraphs, npara, paragraph>>

\* The for loop is through: add_formatted_content returns.
RenderReturn ==
    /\ fmt = "for"
    /\ npara = Len(paragraphs)
    /\ fmt' = "done"
    /\ UNCHANGED <<besidesRender, content, paragraphs, npara, paragraph, draft_doc>>

RenderNext ==
    \/ SplitContent
    \/ StartParagraph
    \/ BoldPair
    \/ RemainingRun
    \/ RenderReturn

RenderSpec == RenderInit /\ [][RenderNext]_vars

\* ------------------------------------------------------------------------
\* proposals_function: main, handle_request_in_background
\* ------------------------------------------------------------------------

\* Most requests the trigger receives (bound of the model).
MaxRequests == 2

\* What req_body.get(key) gives: None for a missing key, or the value.
None == "None"
FolderValues == {None, "", "F1", "F2"}

\* Request bodies: a JSON object with or without the two keys, a JSON value
\* that is no object (req_body.get raises), and a body that is no JSON
\* (req.get_json() raises).
Bodies ==
    [kind : {"object"}, attachments_folder_id : FolderValues,
     response_folder_id : FolderValues]
        \cup [kind : {"not_object", "not_json"}, attachments_folder_id : {None},
              response_folder_id : {None}]

\* Falsy that only takes a missing key, not an empty value.
FalsyMissingOnly(x) == x = None

\* "not x" for the values a key can have.
Falsy(x) == x \in {None, ""}

\* func.HttpResponse(..., status_code=status) returned for the request.
Respond(status) ==
    /\ responses' = Append(responses, [body |-> req_body, status |-> status])
    /\ req_body' = "none"
    /\ mainpc' = "wait"

MainInit ==
    /\ req_body = "none"
    /\ mainpc = "wait"
    /\ responses = <<>>
    /\ units = <<>>
    /\ LoopIdle
    /\ ChunkIdle
    /\ RenderIdle
    /\ StoreIdle

\* The host calls main with a request.
Receive ==
    /\ mainpc = "wait"
    /\ Len(responses) < MaxRequests
    /\ \E b \in Bodies : req_body' = b
    /\ mainpc' = "try"
    /\ UNCHANGED <<besidesMain, responses, units>>

\* req.get_json() or req_body.get(...) raises: except Exception, status 500.
ParseFails ==
    /\ mainpc = "try"
    /\ req_body.kind # "object"
    /\ Respond(500)
    /\ UNCHANGED <<besidesMain, units>>

\* if not attachments_folder_id or not response_folder_id: status 400.
RejectMissing ==
    /\ mainpc = "try"
    /\ req_body.kind = "object"
    /\ Falsy(req_body.attachments_folder_id) \/ Falsy(req_body.response_folder_id)
    /\ Respond(400)
    /\ UNCHANGED <<besidesMain, units>>

\* threading.Thread(target=handle_request_in_background, args=(...)).start()
StartBackground ==
    /\ mainpc = "try"
    /\ req_body.kind = "object"
    /\ ~Falsy(req_body.attachments_folder_id)
    /\ ~Falsy(req_body.response_folder_id)
    /\ units' = Append(units, [attachments_folder_id |-> req_body.attachments_folder_id,
                               response_folder_id |-> req_body.response_folder_id,
                               request |-> Len(responses) + 1,
                               st |-> "started",
                               escaped |-> FALSE])
    /\ mainpc' = "started"
    /\ UNCHANGED <<besidesMain, req_body, responses>>

\* return func.HttpResponse(..., status_code=202)
Acknowledge ==
    /\ mainpc = "started"
    /\ Respond(202)
    /\ UNCHANGED <<besidesMain, units>>

\* The thread runs handle_request_in_background up to the call of handle_request.
BackgroundCalls ==
    \E u \in 1..Len(units) :
        /\ units[u].st = "started"
        /\ units' = [units EXCEPT ![u].st = "in_handle_request"]
        /\ UNCHANGED <<besidesMain, req_body, mainpc, responses>>

\* handle_request returns: "Background processing completed" is logged. (A
\* thread in handle_request may also take no step: handle_request can poll
\* without end.)
BackgroundCompletes ==
    \E u \in 1..Len(units) :
        /\ units[u].st = "in_handle_request"
        /\ units' = [units EXCEPT ![u].st = "completed_logged"]
        /\ UNCHANGED <<besidesMain, req_body, mainpc, responses>>

\* BackgroundFails without the except clause: the exception leaves
\* handle_request_in_background.
BackgroundFailsUncaught ==
    \E u \in 1..Len(units) :
        /\ units[u].st = "in_handle_request"
        /\ units' = [units EXCEPT ![u].st = "died", ![u].escaped = TRUE]
        /\ UNCHANGED <<besidesMain, req_body, mainpc, responses>>

\* handle_request raises: except Exception logs "Error processing request in
\* background" and the thread ends.
BackgroundFails ==
    \E u \in 1..Len(units) :
        /\ units[u].st = "in_handle_request"
        /\ units' = [units EXCEPT ![u].st = "error_logged"]
        /\ UNCHANGED <<besidesMain, req_body, mainpc, responses>>

MainNext ==
    \/ Receive
    \/ ParseFails
    \/ RejectMissing
    \/ StartBackground
    \/ Acknowledge
    \/ BackgroundCalls
    \/ BackgroundCompletes
    \/ BackgroundFails

MainSpec == MainInit /\ [][MainNext]_vars

\* ------------------------------------------------------------------------
\* Concurrent invocations: OneDrive folders, ADLS blobs, threads, documents
\* ------------------------------------------------------------------------

\* Most files an attachments folder holds at the start (bound of the model).
MaxFiles == 1

\* The invocations that run concurrently.
Invocations == {1, 2}

\* Folder identifiers, as character sequences without '/': "x" is a proper
\* prefix of "xy".
FolderIds == {<<"x">>, <<"x", "y">>, <<"y">>}

\* Names of the attachments, as character sequences without '/'.
FileNames == {<<"f", k>> : k \in 1..MaxFiles}

\* f"{attachments_folder_id}/{file_name}"
BlobName(attachments_folder_id, file_name) ==
    attachments_folder_id \o <<"/">> \o file_name

\* name_starts_with without the '/' after the folder identifier.
BlobPrefixNoSlash(attachments_folder_id) == attachments_folder_id

\* name_starts_with=f"{attachments_folder_id}/"
BlobPrefix(attachments_folder_id) == attachments_folder_id \o <<"/">>

\* name.startswith(prefix)
StartsWith(name, prefix) ==
    /\ Len(prefix) <= Len(name)
    /\ SubSeq(name, 1, Len(prefix)) = prefix

\* The files of a OneDrive folder, and the blobs under a prefix.
Children(folder_id) == {file \in drive : file.folder = folder_id}
ListBlobs(prefix) == {blob \in adls : StartsWith(blob.name, prefix)}

\* PUT .../items/{folder_id}:/{file_name}:/content replaces the file of that
\* name in the folder.
PutFile(folder_id, file_name, writer) ==
    {file \in drive : ~(file.folder = folder_id /\ file.name = file_name)}
        \cup {[folder |-> folder_id, name |-> file_name, writer |-> writer]}

\* upload_blob(file_content, overwrite=True) replaces the blob of that name.
UploadBlob(name, writer, file) ==
    {blob \in adls : blob.name # name}
        \cup {[name |-> name, writer |-> writer, file |-> file]}

StoreInit ==
    /\ inv \in [Invocations ->
                  [attachments_folder_id : FolderIds, response_folder_id : FolderIds,
                   at : {"list"}, files : {{}}, blobs : {{}}, file_contents : {{}},
                   thread_id : {0}]]
    /\ adls = {}
    /\ drive = {[folder |-> folder_id, name |-> file_name, writer |-> 0] :
                    folder_id \in FolderIds, file_name \in FileNames}
    /\ nthreads = 0
    /\ LoopIdle
    /\ ChunkIdle
    /\ RenderIdle
    /\ MainIdle

\* GET .../items/{attachments_folder_id}/children
ListFiles ==
    \E i \in Invocations :
        /\ inv[i].at = "list"
        /\ inv' = [inv EXCEPT ![i].files = Children(inv[i].attachments_folder_id),
                              ![i].at = "copy"]
        /\ UNCHANGED <<besidesStore, adls, drive, nthreads>>

\* One turn of "for file in files": the file is downloaded and upload_to_adls
\* stores it, or the download or the upload fails and that is only logged.
CopyFile ==
    \E i \in Invocations : \E file \in inv[i].files : \E stored \in BOOLEAN :
        /\ inv[i].at = "copy"
        /\ inv' = [inv EXCEPT ![i].files = @ \ {file}]
        /\ adls' = IF stored
                     THEN UploadBlob(BlobName(inv[i].attachments_folder_id, file.name),
                                     i, file)
                     ELSE adls
        /\ UNCHANGED <<besidesStore, drive, nthreads>>

\* download_from_adls: list_blobs(name_starts_with=...)
ListFolderBlobs ==
    \E i \in Invocations :
        /\ inv[i].at = "copy"
        /\ inv[i].files = {}
        /\ inv' = [inv EXCEPT
                      ![i].blobs = {blob.name :
                          blob \in ListBlobs(BlobPrefix(inv[i].attachments_folder_id))},
                      ![i].at = "read"]
        /\ UNCHANGED <<besidesStore, adls, drive, nthreads>>

\* download_from_adls: one turn of "for blob in blob_list", which reads what
\* the blob holds now.
ReadBlob ==
    \E i \in Invocations : \E name \in inv[i].blobs : \E blob \in adls :
        /\ inv[i].at = "read"
        /\ blob.name = name
        /\ inv' = [inv EXCEPT ![i].blobs = @ \ {name},
                              ![i].file_contents = @ \cup {blob}]
        /\ UNCHANGED <<besidesStore, adls, drive, nthreads>>

\* client.beta.threads.create(): the service gives a thread of its own.
CreateOwnThread ==
    \E i \in Invocations :
        /\ inv[i].at = "read"
        /\ inv[i].blobs = {}
        /\ nthreads' = nthreads + 1
        /\ inv' = [inv EXCEPT ![i].thread_id = nthreads + 1, ![i].at = "put_chat"]
        /\ UNCHANGED <<besidesStore, adls, drive>>

\* upload_to_onedrive(chat_byte_stream, 'chat_history.docx', response_folder_id, ...)
PutChatDocument ==
    \E i \in Invocations :
        /\ inv[i].at = "put_chat"
        /\ drive' = PutFile(inv[i].response_folder_id, <<ChatName>>, i)
        /\ inv' = [inv EXCEPT ![i].at = "put_draft"]
        /\ UNCHANGED <<besidesStore, adls, nthreads>>

\* upload_to_onedrive(draft_byte_stream, 'draft_response.docx', response_folder_id, ...)
PutDraftDocument ==
    \E i \in Invocations :
        /\ inv[i].at = "put_draft"
        /\ drive' = PutFile(inv[i].response_folder_id, <<DraftName>>, i)
        /\ inv' = [inv EXCEPT ![i].at = "done"]
        /\ UNCHANGED <<besidesStore, adls, nthreads>>

StoreNext ==
    \/ ListFiles
    \/ CopyFile
    \/ ListFolderBlobs
    \/ ReadBlob
    \/ CreateOwnThread
    \/ PutChatDocument
    \/ PutDraftDocument

StoreSpec == StoreInit /\ [][StoreNext]_vars

\* ------------------------------------------------------------------------
\* Vocabulary of the properties
\* ------------------------------------------------------------------------

\* The prompt a message carries or replies to.
PromptOf(m) == m.body[2]

\* Positions on the thread of the user messages that carry prompt i.
UserMsgsOf(i) ==
    {k \in 1..Len(thread_msgs) :
        thread_msgs[k].role = "user" /\ PromptOf(thread_msgs[k]) = i}

\* Positions on the thread of the user messages.
UserPositions == {k \in 1..Len(thread_msgs) : thread_msgs[k].role = "user"}

\* The runs created while prompt i was the current prompt.
RunsOf(i) == {r \in 1..Len(runs) : runs[r].prompt = i}

\* s is a prefix of t.
IsPrefix(s, t) == Len(s) <= Len(t) /\ \A k \in 1..Len(s) : s[k] = t[k]

\* handle_request is inside the prompt loop.
InLoop == pc \in {"iter", "msg", "run0", "run", "poll", "retrieve"}

\* handle_request is past the prompt loop without having raised.
AfterLoop == pc \in {"build", "upload_chat", "upload_draft", "done"}

\* ------------------------------------------------------------------------
\* C1
\* ------------------------------------------------------------------------

\* C1: when message creation for a prompt has failed on all 3 attempts (the
\* state in which "Giving up on prompt i" is the last thing logged), no message
\* and no run exist for that prompt, the loop has advanced to prompt i + 1 (or
\* past the loop after the last prompt) and handle_request has not raised; a
\* prompt without a message never gets a run, and an exception raised inside
\* the loop is raised at a prompt whose message was created.
C1_SubmitExhaustedSkipsPrompt ==
    /\ log.ev = "giving_up_on_prompt" =>
          /\ calls = 3 /\ attempt = 3 /\ ~success
          /\ UserMsgsOf(log.i) = {}
          /\ RunsOf(log.i) = {}
          /\ cur = log.i + 1
          /\ pc \in {"iter", "build", "upload_chat"}
          /\ pc = "iter" <=> log.i < nprompts
          /\ raisedAt = "none"
    /\ \A r \in 1..Len(runs) : \E k \in 1..Len(thread_msgs) :
          thread_msgs[k].role = "user" /\ PromptOf(thread_msgs[k]) = runs[r].prompt
    /\ raisedAt \in {"retrieve", "list"} => UserMsgsOf(cur) # {}

\* Prompt 1 was given up after three failed submissions and the loop stands at
\* prompt 2.
C1_Witness ==
    /\ log = Logged("giving_up_on_prompt", 1)
    /\ calls = 3
    /\ pc = "iter"
    /\ cur = 2

\* ------------------------------------------------------------------------
\* C2
\* ------------------------------------------------------------------------

\* Prompts the loop is done with whose run completed.
CompletedPrompts ==
    {i \in 1..nprompts :
        i < cur /\ \E r \in 1..Len(runs) :
                      runs[r].prompt = i /\ runs[r].status = "completed"}

LastCompleted ==
    LET done == CompletedPrompts
    IN  CHOOSE i \in done : \A j \in done : j <= i

\* Position on the thread of the assistant's reply to prompt i.
ReplyPos(i) ==
    CHOOSE k \in 1..Len(thread_msgs) :
        thread_msgs[k].role = "assistant" /\ PromptOf(thread_msgs[k]) = i

Elements(seq) == {seq[k] : k \in 1..Len(seq)}

\* The transcript holds exactly the messages the thread had when the run of
\* the last completed prompt had completed (as many elements as the thread had
\* then, each of those messages among them); it is unbound while no run
\* completed.
TranscriptAsOfLastCompleted ==
    IF CompletedPrompts = {}
      THEN ~sorted_defined
      ELSE LET pos == ReplyPos(LastCompleted)
           IN  /\ sorted_defined
               /\ Len(sorted_messages) = pos
               /\ \A k \in 1..pos : \E j \in 1..pos :
                      sorted_messages[j] = thread_msgs[k]

\* C2: when the run of a prompt ended failed, cancelled or expired (the state
\* in which "Run for question i failed" is the last thing logged), the prompt
\* has exactly one message and one run, the loop has moved on to the next
\* prompt without raising; no prompt ever gets a second message or a second
\* run; and the transcript is always the one fetched after the last prompt
\* whose run completed.
C2_FailedRunIsSkippedNotRetried ==
    [](/\ log.ev = "run_failed" =>
             /\ run_status \in Terminal \ {"completed"}
             /\ runs[run_id].prompt = log.i
             /\ runs[run_id].status = run_status
             /\ Cardinality(UserMsgsOf(log.i)) = 1
             /\ Cardinality(RunsOf(log.i)) = 1
             /\ cur = log.i + 1
             /\ pc \in {"iter", "build", "upload_chat"}
             /\ pc = "iter" <=> log.i < nprompts
             /\ raisedAt = "none"
       /\ \A k, l \in UserPositions :
             k < l => PromptOf(thread_msgs[k]) # PromptOf(thread_msgs[l])
       /\ \A r, q \in 1..Len(runs) : r < q => runs[r].prompt # runs[q].prompt
       /\ TranscriptAsOfLastCompleted)

\* The run of prompt 2 failed after prompt 1 completed: the thread has three
\* messages and the transcript still has the two of prompt 1.
C2_Witness ==
    /\ log = Logged("run_failed", 2)
    /\ run_status = "failed"
    /\ CompletedPrompts = {1}
    /\ Len(thread_msgs) = 3
    /\ Len(sorted_messages) = 2
    /\ pc = "iter"

\* ------------------------------------------------------------------------
\* C3
\* ------------------------------------------------------------------------

\* C3: once the thread exists, per-prompt failures (submissions or run
\* creations given up, runs ending failed, cancelled or expired) never make
\* handle_request raise: if it raised, then at thread creation, or because a
\* runs.retrieve, messages.list or upload call raised.
C3_PromptFailuresNeverRaise ==
    pc = "raised" => raisedAt \in {"thread", "retrieve", "list", "upload"}

\* ------------------------------------------------------------------------
\* C4
\* ------------------------------------------------------------------------

\* How far handle_request is from the end of its current loop iteration.
Weight ==
    CASE pc = "thread" -> 15
      [] pc = "iter" -> 15
      [] pc = "msg" -> 15 - attempt
      [] pc = "run0" -> 11
      [] pc = "run" -> 11 - attempt
      [] pc = "poll" -> IF KeepPolling(run_status) THEN 6 ELSE 4
      [] pc = "retrieve" -> 5
      [] pc = "build" -> 4
      [] pc = "upload_chat" -> 3
      [] pc = "upload_draft" -> 2
      [] pc = "done" -> 1
      [] OTHER -> 0

\* Variant of handle_request: prompts still to iterate over, then Weight.
Rank == (nprompts + 1 - cur) * 16 + Weight

\* handle_request took a step.
Moved == <<pc, cur, attempt, run_status>>' # <<pc, cur, attempt, run_status>>

\* C4 as stated: a retry loop makes at most 3 calls, and once the prompt loop
\* is over and no poll loop was cut short by a failing retrieve, the loop
\* has iterated over all N prompts.
C4_LoopIteratesAllPrompts ==
    /\ calls <= 3
    /\ (~InLoop /\ pc # "thread" /\ raisedAt \notin {"thread", "retrieve"})
          => cur = nprompts + 1

\* C4, amended: each retry loop makes at most 3 calls, each prompt gets one
\* message retry loop and at most one run retry loop; every step of
\* handle_request lowers Rank except a retrieve that returns a polled status,
\* so the loop ends when the polls do; it ends past the last prompt unless a
\* runs.retrieve or messages.list call raised.
C4_BoundedRetriesLoopTerminates ==
    /\ [](/\ calls <= 3
          /\ attempt <= 3
          /\ Rank >= 0
          /\ AfterLoop => cur = nprompts + 1
          /\ (pc = "raised" /\ raisedAt \notin {"thread", "retrieve", "list"})
                => cur = nprompts + 1)
    /\ [][Moved =>
            \/ Rank' < Rank
            \/ pc = "retrieve" /\ pc' = "poll" /\ KeepPolling(run_status')]_vars
    /\ [][/\ cur' \in {cur, cur + 1}
          /\ (pc' = "iter" /\ Moved) => cur' = cur + 1
          /\ (pc' = "run0" /\ Moved) => (pc \in {"iter", "msg"} /\ cur' = cur)]_vars

\* Every messages.create call of the invocation failed and the loop still went
\* through all prompts, three calls each.
C4_Witness ==
    /\ pc = "build"
    /\ cur = nprompts + 1
    /\ thread_msgs = <<>>
    /\ runs = <<>>
    /\ calls = 3

\* ------------------------------------------------------------------------
\* C5
\* ------------------------------------------------------------------------

\* C5: the invocation creates at most one thread, it exists before anything is
\* put on it, every message-create, run-create, run-retrieve and message-list
\* call is made with the identifier of that thread; when thread creation
\* fails, handle_request has raised with no thread, no call, no message, no
\* run and no upload.
C5_OneThreadForAllCalls ==
    /\ Cardinality(threads) <= 1
    /\ (pc # "thread" /\ raisedAt # "thread") => threads = {thread_id}
    /\ usedThreads \subseteq threads
    /\ (thread_msgs # <<>> \/ runs # <<>> \/ usedThreads # {})
          => Cardinality(threads) = 1
    /\ raisedAt = "thread" =>
          /\ pc = "raised"
          /\ cur = 0
          /\ threads = {}
          /\ usedThreads = {}
          /\ thread_msgs = <<>>
          /\ runs = <<>>
          /\ uploaded = {}

\* An invocation that made all four kinds of call and uploaded both documents,
\* all on its one thread.
C5_Witness ==
    /\ pc = "done"
    /\ threads = {NewThreadId}
    /\ usedThreads = {NewThreadId}
    /\ Len(runs) >= 2
    /\ sorted_defined
    /\ uploaded = {ChatName, DraftName}

\* ------------------------------------------------------------------------
\* C6
\* ------------------------------------------------------------------------

\* C6: at most one run is in a polled status, and only the run of the current
\* prompt while handle_request polls it (or has raised on it); the user
\* messages on the thread are in prompt order; and when the message of a
\* prompt is on the thread, every earlier prompt is behind the loop and each
\* of its runs is in a terminal status.
C6_StrictlySequential ==
    /\ \A r, q \in 1..Len(runs) :
          (runs[r].status \in Polling /\ runs[q].status \in Polling) => r = q
    /\ \A r \in 1..Len(runs) : runs[r].status \in Polling =>
          /\ r = Len(runs)
          /\ r = run_id
          /\ runs[r].prompt = cur
          /\ pc \in {"poll", "retrieve", "raised"}
    /\ \A k, l \in UserPositions :
          k < l => PromptOf(thread_msgs[k]) < PromptOf(thread_msgs[l])
    /\ \A k \in UserPositions :
          LET p == PromptOf(thread_msgs[k])
          IN  /\ \A i \in 1..(p - 1) : i < cur
              /\ \A r \in 1..Len(runs) :
                    runs[r].prompt < p => runs[r].status \in Terminal

\* Prompt 2 is being polled, its run still in progress, after the run of
\* prompt 1 was cancelled; both user messages are on the thread.
C6_Witness ==
    /\ pc = "poll"
    /\ cur = 2
    /\ Len(runs) = 2
    /\ runs[1].status = "cancelled"
    /\ runs[2].status = "in_progress"
    /\ Cardinality(UserPositions) = 2

\* ------------------------------------------------------------------------
\* C7
\* ------------------------------------------------------------------------

\* handle_request is in the poll loop of the current prompt.
InPoll == pc \in {"poll", "retrieve"}

\* C7 as stated: handle_request leaves a poll loop only when the status it
\* retrieved last is outside queued, in_progress, cancelling.
C7_LeavesPollOnlyOnStatus ==
    [][(InPoll /\ ~InPoll') => run_status \notin Polling]_vars

\* C7, amended: handle_request leaves a poll loop only when the status it
\* retrieved last is outside the polled ones or when runs.retrieve raises, and
\* with such a status it does leave at its next step; while the last status is
\* a polled one it can always poll again (no count limits the polls), a
\* retrieve that returns a polled status leads back to the loop, and no step
\* taken meanwhile submits a prompt, creates a run, touches the transcript or
\* uploads.
C7_PollLoopExit ==
    /\ [](pc = "poll" /\ run_status \in Polling => ENABLED PollSleep)
    /\ [][/\ (InPoll /\ ~InPoll') =>
                \/ run_status \notin Polling
                \/ pc = "retrieve" /\ pc' = "raised" /\ raisedAt' = "retrieve"
          /\ (pc = "poll" /\ run_status \notin Polling /\ Moved) => ~InPoll'
          /\ (pc = "retrieve" /\ Moved /\ pc' # "raised") =>
                /\ pc' = "poll"
                /\ run_status' = runs[run_id].status
          /\ (InPoll /\ run_status \in Polling) =>
                /\ cur' = cur
                /\ UserPositions' = UserPositions
                /\ Len(runs') = Len(runs)
                /\ UNCHANGED <<sorted_defined, sorted_messages, chat_doc, uploaded>>]_vars

\* A second poll of the run of prompt 1: the first retrieve returned
\* in_progress and the run is still in progress at the service.
C7_Witness ==
    /\ pc = "retrieve"
    /\ cur = 1
    /\ run_status = "in_progress"
    /\ runs[run_id].status = "in_progress"
    /\ Cardinality(UserPositions) = 1
    /\ uploaded = {}

\* ------------------------------------------------------------------------
\* C8
\* ------------------------------------------------------------------------

\* C8: once the draft text is chosen (at least one run completed), it is the
\* body of the last element of the transcript and that element is a message
\* of the assistant, not a user prompt.
C8_DraftIsLastAssistantMessage ==
    last_response # NoDraft =>
        /\ sorted_defined
        /\ sorted_messages # <<>>
        /\ last_response = Last(sorted_messages).body
        /\ Last(sorted_messages).role = "assistant"

\* ------------------------------------------------------------------------
\* C9
\* ------------------------------------------------------------------------

\* Position of message m in the sequence seq (messages are pairwise distinct).
PosIn(seq, m) == CHOOSE k \in 1..Len(seq) : seq[k] = m

\* C9: the transcript has exactly the messages the last messages.list
\* returned, each once; it is ordered non-decreasing by created_at, messages
\* with the same created_at standing in the order the service returned them;
\* and sorting it again gives the same sequence.
C9_TranscriptSortedStable ==
    [](sorted_defined =>
        /\ Len(sorted_messages) = Len(messages_data)
        /\ Elements(sorted_messages) = Elements(messages_data)
        /\ Cardinality(Elements(messages_data)) = Len(messages_data)
        /\ \A a, b \in 1..Len(sorted_messages) :
              a < b =>
                \/ sorted_messages[a].created_at < sorted_messages[b].created_at
                \/ /\ sorted_messages[a].created_at = sorted_messages[b].created_at
                   /\ PosIn(messages_data, sorted_messages[a])
                         < PosIn(messages_data, sorted_messages[b])
        /\ SortedByCreatedAt(sorted_messages) = sorted_messages)

\* A transcript of four messages in which the sort moved messages and two
\* messages share a created_at while others differ.
C9_Witness ==
    /\ sorted_defined
    /\ Len(sorted_messages) = 4
    /\ sorted_messages # messages_data
    /\ \E a \in 1..3 : sorted_messages[a].created_at = sorted_messages[a + 1].created_at
    /\ \E a \in 1..3 : sorted_messages[a].created_at < sorted_messages[a + 1].created_at

\* ------------------------------------------------------------------------
\* C10
\* ------------------------------------------------------------------------

\* C10: whenever a transcript has been fetched, the paragraphs of chat_doc are
\* the messages of that sorted transcript, in its order, each rendered once as
\* role and body.
C10_ChatDocIsTheTranscript ==
    sorted_defined => chat_doc = Paragraphs(sorted_messages)

\* ------------------------------------------------------------------------
\* C11
\* ------------------------------------------------------------------------

\* A JSON object in which one of the two folder identifiers is missing or empty.
LacksFolderId(b) ==
    /\ b.kind = "object"
    /\ b.attachments_folder_id \in {None, ""} \/ b.response_folder_id \in {None, ""}

\* The background threads started for request number k.
UnitsOf(k) == {u \in 1..Len(units) : units[u].request = k}

\* C11: every request whose JSON object lacks a folder identifier (missing or
\* empty) is answered with status 400 and no background thread is ever started
\* for it; more generally no thread exists for a request answered with
\* another status than 202; and the step of main that answers such a request
\* starts no thread.
C11_MissingFolderIdsRejected ==
    /\ [](/\ \A k \in 1..Len(responses) :
                /\ LacksFolderId(responses[k].body) =>
                      responses[k].status = 400 /\ UnitsOf(k) = {}
                /\ responses[k].status # 202 => UnitsOf(k) = {}
                /\ responses[k].status = 400 => LacksFolderId(responses[k].body)
          /\ (mainpc = "try" /\ LacksFolderId(req_body)) =>
                UnitsOf(Len(responses) + 1) = {})
    /\ [][(mainpc = "try" /\ LacksFolderId(req_body)) =>
            /\ Len(units') = Len(units)
            /\ mainpc' # mainpc =>
                  responses' = Append(responses, [body |-> req_body, status |-> 400])]_vars

\* Two requests were rejected, one without response_folder_id and one with an
\* empty attachments_folder_id; no background thread exists.
C11_Witness ==
    /\ Len(responses) = 2
    /\ responses[1].status = 400
    /\ responses[1].body.attachments_folder_id = "F1"
    /\ responses[1].body.response_folder_id = None
    /\ responses[2].status = 400
    /\ responses[2].body.attachments_folder_id = ""
    /\ responses[2].body.response_folder_id = "F2"
    /\ units = <<>>

\* ------------------------------------------------------------------------
\* C12
\* ------------------------------------------------------------------------

\* A JSON object with both folder identifiers.
HasFolderIds(b) ==
    /\ b.kind = "object"
    /\ b.attachments_folder_id \notin {None, ""}
    /\ b.response_folder_id \notin {None, ""}

\* C12: every request with both folder identifiers is answered with status
\* 202 and has exactly one background thread, started with its identifiers
\* before the answer; main answers without waiting (once the thread is
\* started the answer is enabled, whatever the thread does); an answer given
\* is never changed by what the threads do later; a thread that entered
\* handle_request leaves it only to log its completion or its error, and no
\* exception ever leaves handle_request_in_background.
C12_AcknowledgedBeforeProcessing ==
    /\ [](/\ \A k \in 1..Len(responses) :
                HasFolderIds(responses[k].body) =>
                    /\ responses[k].status = 202
                    /\ Cardinality(UnitsOf(k)) = 1
          /\ \A u \in 1..Len(units) :
                /\ ~units[u].escaped
                /\ units[u].st \in {"started", "in_handle_request",
                                     "completed_logged", "error_logged"}
                /\ \A v \in 1..Len(units) : units[v].request = units[u].request => v = u
                /\ IF units[u].request <= Len(responses)
                     THEN /\ responses[units[u].request].status = 202
                          /\ responses[units[u].request].body.attachments_folder_id
                                = units[u].attachments_folder_id
                          /\ responses[units[u].request].body.response_folder_id
                                = units[u].response_folder_id
                     ELSE /\ units[u].request = Len(responses) + 1
                          /\ mainpc = "started"
                          /\ HasFolderIds(req_body)
          /\ mainpc = "started" => ENABLED Acknowledge)
    /\ [][/\ IsPrefix(responses, responses')
          /\ (mainpc = "started" /\ mainpc' # mainpc) =>
                responses' = Append(responses, [body |-> req_body, status |-> 202])
          /\ Len(units') >= Len(units)
          /\ \A u \in 1..Len(units) :
                /\ units'[u].request = units[u].request
                /\ (units[u].st = "in_handle_request" /\ units'[u].st # units[u].st) =>
                      units'[u].st \in {"completed_logged", "error_logged"}
                /\ units[u].st \in {"completed_logged", "error_logged"} =>
                      units'[u] = units[u]]_vars

\* Two requests were acknowledged with 202: handle_request of the first has
\* raised and the error is logged, handle_request of the second is running.
C12_Witness ==
    /\ Len(responses) = 2
    /\ responses[1].status = 202
    /\ responses[2].status = 202
    /\ Len(units) = 2
    /\ units[1].st = "error_logged"
    /\ units[2].st = "in_handle_request"
    /\ mainpc = "wait"

\* ------------------------------------------------------------------------
\* C13
\* ------------------------------------------------------------------------

\* The sequences of ss joined in order.
RECURSIVE Concat(_)
Concat(ss) == IF ss = <<>> THEN <<>> ELSE Head(ss) \o Concat(Tail(ss))

\* C13: the chunks one turn of the chunking loop adds for a text, joined in
\* order, are that text; they share no character; an empty text adds none; the
\* chunks added before stay; and every chunk ever held has at least one and at
\* most chunk_size characters.
C13_ChunkingIsLosslessPartition ==
    /\ [](\A k \in 1..Len(chunks) :
              Len(chunks[k]) >= 1 /\ Len(chunks[k]) <= chunk_size)
    /\ [][nchunked' = nchunked + 1 =>
            LET text == file_contents[nchunked']
                added == SubSeq(chunks', Len(chunks) + 1, Len(chunks'))
            IN  /\ IsPrefix(chunks, chunks')
                /\ Concat(added) = text
                /\ \A k, l \in 1..Len(added) :
                      k < l => Elements(added[k]) \cap Elements(added[l]) = {}
                /\ text = <<>> => added = <<>>
                /\ Len(added) * chunk_size >= Len(text)
                /\ (Len(added) - 1) * chunk_size < Len(text) \/ text = <<>>]_vars

\* With chunk_size 2, a text of three characters was cut into chunks of 2 and
\* 1 characters and an empty text into none.
C13_Witness ==
    /\ prep = "ready"
    /\ chunk_size = 2
    /\ Len(file_contents) = 2
    /\ Len(file_contents[1]) = 3
    /\ file_contents[2] = <<>>
    /\ Len(chunks) = 2
    /\ Len(chunks[1]) = 2
    /\ Len(chunks[2]) = 1

\* ------------------------------------------------------------------------
\* C14
\* ------------------------------------------------------------------------

\* Lengths of the chunks of a text of n characters.
ChunkLengths(n, size) ==
    LET offsets == Range(0, n, size)
    IN  [k \in 1..Len(offsets) |-> Min(offsets[k] + size, n) - offsets[k]]

\* C14: the chunks are the chunks of the texts in the order of the texts (the
\* chunks of all texts chunked so far, joined, are those texts joined); the
\* prepared prompts are one chunk prompt per chunk, in that order, numbered
\* 1..K, followed by the four fixed prompts in their order, K + 4 in all; texts
\* of 50 and 150,000 characters cut at 100,000 give 1 + 2 chunks (of 50,
\* 100,000 and 50,000 characters) and 7 prompts.
C14_PromptsAreChunksThenFixed ==
    /\ prep \in {"chunk", "ready"} =>
          Concat(chunks) = Concat(SubSeq(file_contents, 1, nchunked))
    /\ prep = "ready" =>
          /\ Len(prompts) = Len(chunks) + NumFixedPrompts
          /\ \A k \in 1..Len(chunks) :
                prompts[k] = [kind |-> "chunk", n |-> k, chunk |-> chunks[k]]
          /\ \A j \in 1..NumFixedPrompts :
                prompts[Len(chunks) + j] = FixedPrompts[j]
    /\ prep # "ready" => prompts = <<>>
    /\ Len(FixedPrompts) = NumFixedPrompts
    /\ ChunkLengths(50, CodeChunkSize) = <<50>>
    /\ ChunkLengths(150000, CodeChunkSize) = <<100000, 50000>>
    /\ Len(ChunkLengths(50, CodeChunkSize)) + Len(ChunkLengths(150000, CodeChunkSize))
          + NumFixedPrompts = 7

\* Two texts, the first shorter than chunk_size and the second one and a half
\* times chunk_size: 1 + 2 chunks and 7 prompts.
C14_Witness ==
    /\ prep = "ready"
    /\ chunk_size = 2
    /\ Len(file_contents) = 2
    /\ Len(file_contents[1]) = 1
    /\ Len(file_contents[2]) = 3
    /\ Len(chunks) = 3
    /\ Len(prompts) = 7
    /\ prompts[3].n = 3
    /\ prompts[3].chunk = <<file_contents[2][3]>>

\* ------------------------------------------------------------------------
\* C15
\* ------------------------------------------------------------------------

\* The line a sequence of runs stands for: the texts in order, with a marker
\* before and after each bold one.
RECURSIVE Unrender(_)
Unrender(rs) ==
    IF rs = <<>> THEN <<>>
    ELSE (IF Head(rs).bold THEN Marker \o Head(rs).text \o Marker ELSE Head(rs).text)
            \o Unrender(Tail(rs))

\* Sum of 2 + Len over the elements of ss after the first n.
RECURSIVE StepsLeft(_, _)
StepsLeft(ss, n) ==
    IF n >= Len(ss) THEN 0 ELSE 2 + Len(ss[n + 1]) + StepsLeft(ss, n + 1)

\* Variant of add_formatted_content.
RenderRank ==
    CASE fmt = "split" -> 2 + StepsLeft(Split(content), 0)
      [] fmt = "for" -> 1 + StepsLeft(paragraphs, npara)
      [] fmt = "while" -> 2 + Len(paragraph) + StepsLeft(paragraphs, npara)
      [] OTHER -> 0

\* The paragraphs of draft_doc whose rendering is over.
RenderedParagraphs == 1..(IF fmt = "while" THEN npara - 1 ELSE npara)

\* The text "a **b** c" and the runs the claim gives for it.
ExampleLine == <<"a", " ", "*", "*", "b", "*", "*", " ", "c">>
ExampleRuns == <<PlainRun(<<"a", " ">>), BoldRun(<<"b">>), PlainRun(<<" ", "c">>)>>

\* C15: for every line rendered, the runs alternate plain, bold, ..., plain;
\* put back together with markers around the bold ones they are the line; no
\* bold run and no plain run before a bold one holds a marker; the last run
\* holds a marker only if no second one follows it in the run (an opening
\* marker that is never closed stays in the text, with all that follows it);
\* while a line is being rendered, the runs added so far put back together
\* and followed by what is left are the line; "a **b** c" gives plain "a ",
\* bold "b", plain " c" and "a **b" gives the one plain run "a **b"; every
\* step lowers RenderRank, a turn of the while loop takes at least four
\* characters off what is left, and when add_formatted_content has returned
\* there is one paragraph per line.
C15_MarkersRenderedLeftToRight ==
    /\ [](/\ \A k \in RenderedParagraphs :
                LET rs == draft_doc[k]
                IN  /\ rs = LineRuns(paragraphs[k])
                    /\ Unrender(rs) = paragraphs[k]
                    /\ Len(rs) % 2 = 1
                    /\ \A j \in 1..Len(rs) : rs[j].bold <=> (j % 2 = 0)
                    /\ \A j \in 1..(Len(rs) - 1) : Find(rs[j].text, 0) = -1
                    /\ LET last == rs[Len(rs)].text
                       IN  Find(last, 0) # -1 => Find(last, Find(last, 0) + 2) = -1
          /\ fmt = "while" =>
                Unrender(draft_doc[npara]) \o paragraph = paragraphs[npara]
          /\ fmt = "done" => Len(draft_doc) = Len(paragraphs)
          /\ fmt \notin {"idle", "split"} =>
                Len(paragraphs) = 1 + Cardinality({k \in 1..Len(content) : content[k] = "\n"})
          /\ RenderRank >= 0
          /\ LineRuns(ExampleLine) = ExampleRuns
          /\ LineRuns(SubSeq(ExampleLine, 1, 5)) = <<PlainRun(SubSeq(ExampleLine, 1, 5))>>)
    /\ [][/\ RenderRank' < RenderRank
          /\ (fmt = "while" /\ fmt' = "while") => Len(paragraph') <= Len(paragraph) - 4]_vars

\* "a**b**" was rendered: plain "a", bold "b" and the empty rest.
C15_Witness ==
    /\ fmt = "done"
    /\ content = <<"a", "*", "*", "b", "*", "*">>
    /\ draft_doc = << <<PlainRun(<<"a">>), BoldRun(<<"b">>), PlainRun(<<>>)>> >>

\* ------------------------------------------------------------------------
\* C16
\* ------------------------------------------------------------------------

\* C16: no blob makes the preparation raise: whatever its extension and
\* whether or not its content can be parsed, process_file returns a text for
\* it and the remaining blobs are read.
C16_FileErrorsNeverAbort ==
    /\ prep # "raised"
    /\ prep \in {"chunk", "ready"} => Len(file_contents) = Len(blob_list)

\* ------------------------------------------------------------------------
\* C17
\* ------------------------------------------------------------------------

\* The folder identifiers of invocation i.
FoldersOf(i) == {inv[i].attachments_folder_id, inv[i].response_folder_id}

\* Invocations i and j share no folder identifier.
Foreign(i, j) == i # j /\ FoldersOf(i) \cap FoldersOf(j) = {}

\* C17: for two invocations that share no folder identifier, in every state of
\* every interleaving: the files one lists, the blob names it lists and the
\* blobs it reads are under its own attachments folder and prefix and none was
\* written by the other; no blob under its prefix and no file in its folders
\* was written by the other; their threads differ. For any two invocations: a
\* blob written by one is under its own prefix, a blob under the prefix of one
\* was written by an invocation with the same attachments folder, a document
\* in the response folder of one by an invocation with that response folder;
\* and a blob or a file is only ever replaced under its own name, by an
\* invocation with the same folder (the last write wins), never removed.
C17_ForeignInvocationsDoNotInterfere ==
    /\ [](/\ \A i, j \in Invocations : Foreign(i, j) =>
                /\ \A file \in inv[i].files :
                      file.folder = inv[i].attachments_folder_id /\ file.writer # j
                /\ \A name \in inv[i].blobs :
                      StartsWith(name, inv[i].attachments_folder_id \o <<"/">>)
                /\ \A blob \in inv[i].file_contents :
                      /\ StartsWith(blob.name, inv[i].attachments_folder_id \o <<"/">>)
                      /\ blob.writer = i
                      /\ blob.file.folder = inv[i].attachments_folder_id
                      /\ blob.file.writer = 0
                /\ \A blob \in adls :
                      StartsWith(blob.name, inv[i].attachments_folder_id \o <<"/">>)
                          => blob.writer = i
                /\ \A file \in drive : file.folder \in FoldersOf(i) => file.writer # j
                /\ inv[i].thread_id # 0 => inv[i].thread_id # inv[j].thread_id
          /\ \A blob \in adls : \A i \in Invocations :
                /\ StartsWith(blob.name, inv[blob.writer].attachments_folder_id \o <<"/">>)
                /\ StartsWith(blob.name, inv[i].attachments_folder_id \o <<"/">>) =>
                      inv[blob.writer].attachments_folder_id
                          = inv[i].attachments_folder_id
          /\ \A file \in drive :
                file.writer # 0 => file.folder = inv[file.writer].response_folder_id
          /\ \A i, j \in Invocations :
                (i # j /\ inv[i].thread_id # 0) => inv[i].thread_id # inv[j].thread_id)
    /\ [][/\ \A blob \in adls : blob \notin adls' =>
                \E new \in adls' :
                    /\ new.name = blob.name
                    /\ inv[new.writer].attachments_folder_id
                          = inv[blob.writer].attachments_folder_id
          /\ \A file \in drive : file \notin drive' =>
                \E new \in drive' :
                    /\ new.folder = file.folder /\ new.name = file.name
                    /\ new.writer # 0
                    /\ inv[new.writer].response_folder_id = file.folder]_vars

\* Invocation 1 reads folder "x" and answers into "y", invocation 2 works on
\* "xy", of which "x" is a prefix: both are through, each has read its own
\* blob and uploaded its two documents.
C17_Witness ==
    /\ Foreign(1, 2)
    /\ inv[1].attachments_folder_id = <<"x">>
    /\ inv[1].response_folder_id = <<"y">>
    /\ inv[2].attachments_folder_id = <<"x", "y">>
    /\ inv[2].response_folder_id = <<"x", "y">>
    /\ inv[1].at = "done"
    /\ inv[2].at = "done"
    /\ \E blob \in inv[1].file_contents : blob.name = <<"x", "/", "f", 1>>
    /\ \E blob \in inv[2].file_contents : blob.name = <<"x", "y", "/", "f", 1>>
    /\ Cardinality({file \in drive : file.writer # 0}) = 4
    /\ Cardinality(adls) = 2

\* ------------------------------------------------------------------------
\* C18
\* ------------------------------------------------------------------------

\* Where prompt i stands: no message yet, message on the thread, run created
\* and in a polled status, run ended completed, run ended otherwise.
PromptState(i) ==
    IF UserMsgsOf(i) = {} THEN "pending"
    ELSE IF RunsOf(i) = {} THEN "submitted"
    ELSE LET st == runs[CHOOSE r \in RunsOf(i) : TRUE].status
         IN  IF st \in Polling THEN "running"
             ELSE IF st = "completed" THEN "completed"
             ELSE "failed"

\* The moves of the state machine of a prompt.
PromptMoves ==
    {<<"pending", "submitted">>, <<"submitted", "running">>,
     <<"running", "completed">>, <<"running", "failed">>}

\* C18: at most N messages and at most N runs are created, never more runs than
\* messages; each prompt only moves pending -> submitted -> running ->
\* completed or failed, one move at a time; nothing on the thread is ever
\* removed, no run is removed, the thread stays, and no step of handle_request
\* changes the status of a run (it cancels none).
C18_BoundedCreationsForwardOnly ==
    /\ [](/\ Cardinality(UserPositions) <= nprompts
          /\ Len(runs) <= nprompts
          /\ Len(runs) <= Cardinality(UserPositions)
          /\ \A r \in 1..Len(runs) : runs[r].prompt \in 1..nprompts)
    /\ [][\/ UNCHANGED <<thread_msgs, runs, threads>>
          \/ /\ \A i \in 1..nprompts :
                   \/ PromptState(i)' = PromptState(i)
                   \/ <<PromptState(i), PromptState(i)'>> \in PromptMoves
             /\ IsPrefix(thread_msgs, thread_msgs')
             /\ Len(runs') >= Len(runs)
             /\ \A r \in 1..Len(runs) : runs'[r].prompt = runs[r].prompt
             /\ threads \subseteq threads'
             /\ Moved => \A r \in 1..Len(runs) : runs'[r] = runs[r]]_vars

\* An invocation that ended with fewer runs than messages and fewer messages
\* than prompts, one run completed and one run failed.
C18_Witness ==
    /\ pc = "done"
    /\ Len(runs) < Cardinality(UserPositions)
    /\ Cardinality(UserPositions) < nprompts
    /\ \E i, j \in 1..nprompts :
          PromptState(i) = "completed" /\ PromptState(j) = "failed"
    /\ \E i \in 1..nprompts : PromptState(i) = "pending"

\* ------------------------------------------------------------------------
\* C19
\* ------------------------------------------------------------------------

\* C19: the step that skips a prompt whose run ended failed, cancelled or
\* expired refetches the message list: after it the transcript is bound and
\* holds the messages that are on the thread.
C19_FailedRunRefreshesTranscript ==
    [][(pc = "poll" /\ run_status \in Terminal \ {"completed"} /\ Moved) =>
          /\ sorted_defined'
          /\ Len(sorted_messages') = Len(thread_msgs)
          /\ Elements(sorted_messages') = Elements(thread_msgs)]_vars

\* ------------------------------------------------------------------------
\* C20
\* ------------------------------------------------------------------------

\* C20: a runs.retrieve or messages.list call that raises ends handle_request
\* at once: the step leads from the call to the raised state at the same
\* prompt, logged as an error; in that state no document was uploaded, no
\* later prompt has a message or a run, and handle_request takes no further
\* step (no retry, no skip, no upload).
C20_RetrieveAndListFailuresAbort ==
    /\ [](raisedAt \in {"retrieve", "list"} =>
            /\ pc = "raised"
            /\ log.ev = "error_in_handle_request"
            /\ uploaded = {}
            /\ last_response = NoDraft
            /\ cur \in 1..nprompts
            /\ \A k \in UserPositions : PromptOf(thread_msgs[k]) <= cur
            /\ \A r \in 1..Len(runs) : runs[r].prompt <= cur)
    /\ [][/\ (pc = "retrieve" /\ Moved /\ pc' # "poll") =>
                pc' = "raised" /\ raisedAt' = "retrieve" /\ cur' = cur
          /\ (pc = "poll" /\ run_status = "completed" /\ Moved /\ ~sorted_defined') =>
                pc' = "raised" /\ raisedAt' = "list" /\ cur' = cur
          /\ pc = "raised" =>
                /\ ~Moved
                /\ UserPositions' = UserPositions
                /\ Len(runs') = Len(runs)
                /\ UNCHANGED <<usedThreads, docVars, raisedAt, log>>]_vars

\* messages.list raised at prompt 2 of at least four, after prompt 1 had
\* completed and its transcript was fetched.
C20_Witness ==
    /\ pc = "raised"
    /\ raisedAt = "list"
    /\ cur = 2
    /\ sorted_defined
    /\ Len(sorted_messages) = 2
    /\ Len(thread_msgs) = 4
====
